---- MODULE Spec2Model ----
(***************************************************************************)
(* Model of the minidump processor of rust-minidump:                       *)
(*   minidump-processor/src/processor.rs        process_minidump_with_options *)
(*   minidump-processor/src/stackwalker/mod.rs  walk_stack, get_caller_frame, *)
(*                                              fill_source_line_info         *)
(* The per-ISA unwinders (stackwalker/amd64.rs, x86.rs, arm.rs, arm64.rs)  *)
(* and the minidump crate's stream types are modelled from their           *)
(* description in the specification.                                       *)
(*                                                                         *)
(* Option<T> is modelled as a sequence: None is <<>>, Some(x) is <<x>>.    *)
(* BTreeMap<String, BTreeSet<u64>> is modelled as the set of <<name,       *)
(* offset>> pairs (the code never leaves a name with an empty set).        *)
(***************************************************************************)
EXTENDS Integers, Sequences, FiniteSets, TLC

VARIABLES
    dump,               \* the minidump being processed (read-only input)
    pc,                 \* position in process_minidump_with_options
    i,                  \* index of the thread-list entry being processed (1-based)
    threads,            \* `threads` vector of processor.rs:216
    requesting_thread,  \* `requesting_thread` of processor.rs:217 (0-based index)
    context,            \* walk_stack's `maybe_context` argument
    frames,             \* walk_stack's `frames`
    info,               \* walk_stack's `info`
    maybe_frame,        \* walk_stack's `maybe_frame`
    stack,              \* the CallStack walk_stack returned (processor.rs:244)
    symbol_provider,    \* the symbol provider (read-only input)
    probe_call,         \* a call of instruction_seems_valid_by_symbols
    walker,             \* a CfiStackWalker handed to the symbol provider
    result              \* what process_minidump_with_options returned

vars == <<dump, pc, i, threads, requesting_thread, context, frames, info,
          maybe_frame, stack, symbol_provider, probe_call, walker, result>>

----------------------------------------------------------------------------
(* Bounds of the model *)

\* Addresses (code and stack) range over 0..MaxAddr.
MaxAddr == 5
\* The thread list has at most MaxThreads entries.
MaxThreads == 2
\* A stack scan looks at MaxScan consecutive words.
MaxScan == 2

Addr == 0..MaxAddr

None == <<>>
Some(x) == <<x>>
IsSome(o) == o /= <<>>
Unwrap(o) == o[1]

\* Option::or
OptOr(a, b) == IF IsSome(a) THEN a ELSE b

----------------------------------------------------------------------------
(* The streams of a dump *)

RequiredStreams == {"ThreadList", "SystemInfo"}

OptionalStreams ==
    {"ThreadNames", "LinuxLsbRelease", "LinuxCpuInfo", "MiscInfo",
     "BreakpadInfo", "Exception", "ModuleList", "UnloadedModuleList",
     "MemoryList", "MemoryInfoList", "LinuxMaps", "MacCrashInfo"}

AllStreams == RequiredStreams \cup OptionalStreams

\* dump.get_stream::<T>() is Ok exactly for the streams the dump holds.
get_stream(d, name) == name \in d.streams

----------------------------------------------------------------------------
(* Modules, stack memory, contexts and frames *)

\* A module covers [base_of_image, base_of_image + size).
Covers(m, a) == m.base <= a /\ a < m.base + m.size

\* MinidumpModuleList::module_at_address: the loaded module whose interval
\* holds the address (the list keeps its modules disjoint).
module_at_address(mods, a) ==
    LET hits == {k \in 1..Len(mods) : Covers(mods[k], a)}
    IN  IF hits = {} THEN None
        ELSE Some(mods[CHOOSE k \in hits : \A j \in hits : k <= j])

\* MinidumpUnloadedModuleList::modules_at_address: every unloaded module
\* whose interval holds the address; unloaded modules may overlap.
modules_at_address(unl, a) == {k \in 1..Len(unl) : Covers(unl[k], a)}

\* MinidumpMemory::get_memory_at_address: the word at an address, if the
\* region [base, base + Len(words)) holds it.
get_memory_at_address(mem, a) ==
    IF a >= mem.base /\ a < mem.base + Len(mem.words)
    THEN Some(mem.words[a - mem.base + 1])
    ELSE None

\* The register names the model keeps of a CPU context.
Regs == {"ip", "sp", "fp"}

\* The variants of MinidumpRawContext that get_caller_frame dispatches on.
SupportedArch == {"arm", "arm64", "arm64_old", "amd64", "x86"}

\* One machine word, in address units.
WordSize == 1

\* StackFrame::from_context: the frame of a context, nothing resolved yet.
from_context(ctx, trust) ==
    [instruction |-> ctx.ip, trust |-> trust, context |-> ctx,
     module |-> None, function_name |-> None, unloaded_modules |-> {}]

----------------------------------------------------------------------------
(* The symbol provider: what one fill_symbol call may answer *)

\* Err: no symbols for the module.  OkNamed: set_function with a name.
\* OkEmpty: set_function with an empty name.  OkUnknown: Ok, nothing set.
FillResults == {"Err", "OkNamed", "OkEmpty", "OkUnknown"}

\* The function name a frame has after fill_symbol: set_function is called
\* only by the two Ok answers that found a function record.
FilledName(old, fill) ==
    CASE fill = "OkNamed" -> Some("fn")
      [] fill = "OkEmpty" -> Some("")
      [] OTHER -> old

\* Mutant of fill_source_line_info: the module is attached only once
\* fill_symbol has succeeded.
fill_source_line_info_on_success(frame, modules, fill) ==
    LET m == module_at_address(modules, frame.instruction)
    IN  IF IsSome(m) /\ fill /= "Err"
        THEN [frame EXCEPT !.module = Some(Unwrap(m).name),
                           !.function_name = FilledName(@, fill)]
        ELSE frame

\* fill_source_line_info (stackwalker/mod.rs:139-155) with the provider
\* answering `fill`: the module is attached whenever one covers the
\* instruction, whatever fill_symbol answers.
fill_source_line_info(frame, modules, fill) ==
    LET m == module_at_address(modules, frame.instruction)
    IN  IF IsSome(m)
        THEN [frame EXCEPT !.module = Some(Unwrap(m).name),
                           !.function_name = FilledName(@, fill)]
        ELSE frame

\* Size of the address space: u64 arithmetic wraps at AddrSpace.
AddrSpace == MaxAddr + 1

\* instruction_seems_valid_by_symbols (stackwalker/mod.rs:209-272) with the
\* provider answering `fill` for the probe frame.
instruction_seems_valid_by_symbols(instruction, modules, fill) ==
    LET probe == (instruction + AddrSpace - 1) % AddrSpace
    IN  IF IsSome(module_at_address(modules, probe))
        THEN IF fill /= "Err"
             THEN fill = "OkNamed"     \* frame.has_name
             ELSE TRUE
        ELSE FALSE

----------------------------------------------------------------------------
(* The per-ISA unwinders: CFI, then frame pointer, then scan *)

\* A caller frame with the given registers; `valid` is its validity set.
CallerFrame(ip, sp, fp, valid, arch, trust) ==
    from_context([arch |-> arch, ip |-> ip, sp |-> sp, fp |-> fp,
                  valid |-> valid], trust)

\* The return addresses a CFI evaluation may come up with: zero, an
\* address inside the loaded module, the address one past its end.
CfiReturnAddrs == {0, 3, 4}

\* Strategy 1: the caller frames the provider's CFI evaluation may build
\* through set_cfa and set_ra (a CFA near the callee's SP, below it
\* included); the frame pointer is carried over as the callee has it.
\* CFI needs stack memory and a module at the callee's instruction, and
\* succeeds only with both SP and PC in the caller validity set.
get_caller_by_cfi(callee, mem, modules) ==
    IF mem = None \/ module_at_address(modules, callee.instruction) = None
    THEN {}
    ELSE {CallerFrame(ra, cfa, callee.context.fp,
                      {"ip", "sp"} \cup (callee.context.valid \cap {"fp"}),
                      callee.context.arch, "CFI") :
            ra \in CfiReturnAddrs,
            cfa \in {a \in Addr : a >= callee.context.sp - 1
                                  /\ a <= callee.context.sp + 2}}

\* Strategy 2: the frame record at [FP] is the saved FP, [FP + word] the
\* return address, and the caller's SP is FP + 2 words.
get_caller_by_frame_pointer(callee, mem) ==
    IF mem = None \/ "fp" \notin callee.context.valid
    THEN {}
    ELSE LET fp == callee.context.fp
             saved == get_memory_at_address(Unwrap(mem), fp)
             ra == get_memory_at_address(Unwrap(mem), fp + WordSize)
         IN  IF IsSome(saved) /\ IsSome(ra)
             THEN {CallerFrame(Unwrap(ra), fp + 2 * WordSize, Unwrap(saved),
                               Regs, callee.context.arch, "FramePointer")}
             ELSE {}

\* Strategy 3: the k-th stack slot above the callee's SP read as a return
\* address; the caller's SP is the slot after it.
ScanCandidate(callee, mem, k) ==
    IF mem = None THEN {}
    ELSE LET at == callee.context.sp + k * WordSize
             word == get_memory_at_address(Unwrap(mem), at)
         IN  IF IsSome(word)
             THEN {CallerFrame(Unwrap(word), at + WordSize, callee.context.fp,
                               {"ip", "sp"}, callee.context.arch, "Scan")}
             ELSE {}

\* Mutant of ValidCaller: a caller SP equal to the callee's is accepted.
ValidCaller_not_strict(callee, caller, modules, provider) ==
    /\ {"ip", "sp"} \subseteq caller.context.valid
    /\ caller.context.sp >= callee.context.sp
    /\ caller.context.ip /= 0
    /\ \/ IsSome(module_at_address(modules, caller.context.ip))
       \/ instruction_seems_valid_by_symbols(caller.context.ip, modules,
                                             provider.fill)

\* Validity of a caller frame: PC and SP valid, caller SP strictly above
\* the callee's, PC non-zero, and PC in a known module or passing the
\* symbols-based probe.
ValidCaller(callee, caller, modules, provider) ==
    /\ {"ip", "sp"} \subseteq caller.context.valid
    /\ caller.context.sp > callee.context.sp
    /\ caller.context.ip /= 0
    /\ \/ IsSome(module_at_address(modules, caller.context.ip))
       \/ instruction_seems_valid_by_symbols(caller.context.ip, modules,
                                             provider.fill)

\* What an ISA's get_caller_frame may return (a set of Option<StackFrame>,
\* one per CFI answer of the provider, which may have no CFI at all): the
\* first strategy that produces a valid caller wins.
arch_get_caller_frame(callee, mem, modules, provider) ==
    LET ok(S) == {g \in S : ValidCaller(callee, g, modules, provider)}
        cfi == ok(get_caller_by_cfi(callee, mem, modules))
        byfp == ok(get_caller_by_frame_pointer(callee, mem))
        scan(k) == ok(ScanCandidate(callee, mem, k))
        hits == {k \in 0..(MaxScan - 1) : scan(k) /= {}}
    IN  {Some(f) : f \in cfi}
        \cup (IF byfp /= {} THEN {Some(f) : f \in byfp}
              ELSE IF hits /= {}
              THEN {Some(f) : f \in scan(CHOOSE k \in hits : \A j \in hits : k <= j)}
              ELSE {None})

\* Mutant of get_caller_frame: the default arm hands the callee back as
\* its own caller.
get_caller_frame_default_arm(callee_frame, grand_callee_frame, stack_memory, modules, provider) ==
    IF callee_frame.context.arch \in SupportedArch
    THEN arch_get_caller_frame(callee_frame, stack_memory, modules, provider)
    ELSE {Some(from_context(callee_frame.context, "None"))}

\* get_caller_frame (stackwalker/mod.rs:83-137): dispatch on the callee's
\* raw context; any other architecture has no caller.
get_caller_frame(callee_frame, grand_callee_frame, stack_memory, modules, provider) ==
    IF callee_frame.context.arch \in SupportedArch
    THEN arch_get_caller_frame(callee_frame, stack_memory, modules, provider)
    ELSE {None}

----------------------------------------------------------------------------
(* process_minidump_with_options: what it reads from the dump *)

thread_list(d) == d.threads

\* processor.rs:173-178
dump_thread_id(d) ==
    IF get_stream(d, "BreakpadInfo") THEN d.breakpad.dump_thread_id ELSE None

requesting_thread_id(d) ==
    IF get_stream(d, "BreakpadInfo") THEN d.breakpad.requesting_thread_id ELSE None

\* processor.rs:180-190
crashing_thread_id(d) ==
    IF get_stream(d, "Exception") THEN Some(d.exception.thread_id) ELSE None

\* processor.rs:191-192
exception_context(d) ==
    IF get_stream(d, "Exception") THEN d.exception.context ELSE None

\* processor.rs:195-204: a missing module list is an empty one.
modules(d) == IF get_stream(d, "ModuleList") THEN d.modules ELSE <<>>

unloaded_modules(d) ==
    IF get_stream(d, "UnloadedModuleList") THEN d.unloaded ELSE <<>>

\* processor.rs:205, 242: the thread's stack, looked up in the memory list
\* (a missing memory list is an empty one).
stack_memory(thread, d) ==
    IF get_stream(d, "MemoryList") THEN thread.stack ELSE None

\* processor.rs:87-89, 265-268: the thread's name, from the thread-names
\* stream (no side-channel names are given).
thread_name(thread, d) ==
    IF get_stream(d, "ThreadNames") THEN thread.name ELSE None

\* Mutant of IsDumpThread: the requesting thread id taken for the dump
\* thread id.
IsDumpThread_requesting(d, id) ==
    IsSome(requesting_thread_id(d)) /\ Unwrap(requesting_thread_id(d)) = id

\* processor.rs:222: is this the thread that wrote the dump?
IsDumpThread(d, id) ==
    IsSome(dump_thread_id(d)) /\ Unwrap(dump_thread_id(d)) = id

\* Mutant of IsRequestingThread: the Breakpad info's thread id preferred.
IsRequestingThread_breakpad_first(d, id) ==
    LET t == OptOr(requesting_thread_id(d), crashing_thread_id(d))
    IN  IF IsSome(t) THEN Unwrap(t) = id ELSE FALSE

\* processor.rs:231-234: did this thread request the dump?  The exception
\* stream's thread id is preferred over the Breakpad info's.
IsRequestingThread(d, id) ==
    LET t == OptOr(crashing_thread_id(d), requesting_thread_id(d))
    IN  IF IsSome(t) THEN Unwrap(t) = id ELSE FALSE

\* Mutant of InitialContext: the thread's own context preferred.
InitialContext_own_first(d, thread) ==
    IF IsRequestingThread(d, thread.thread_id)
    THEN OptOr(thread.context, exception_context(d))
    ELSE thread.context

\* processor.rs:227-240: the context the walk of a thread starts from.
InitialContext(d, thread) ==
    IF IsRequestingThread(d, thread.thread_id)
    THEN OptOr(exception_context(d), thread.context)
    ELSE thread.context

\* CallStack::with_info
with_info(id, inf) ==
    [frames |-> <<>>, info |-> inf, thread_id |-> id, thread_name |-> None]

\* Mutant of UnloadedOffsets: the instruction recorded in place of the
\* offset.
UnloadedOffsets_no_base(frame, unl) ==
    {<<unl[k].name, frame.instruction>> :
        k \in modules_at_address(unl, frame.instruction)}

\* processor.rs:252-259: the offsets of a frame in the unloaded modules
\* that overlap its instruction, by module name.
UnloadedOffsets(frame, unl) ==
    {<<unl[k].name, frame.instruction - unl[k].base>> :
        k \in modules_at_address(unl, frame.instruction)}

\* Mutant of AnnotateFrame: every frame is annotated.
AnnotateFrame_always(frame, unl) ==
    [frame EXCEPT !.unloaded_modules = UnloadedOffsets(frame, unl)]

\* processor.rs:251-262: only a frame without a loaded module is annotated.
AnnotateFrame(frame, unl) ==
    IF frame.module = None
    THEN [frame EXCEPT !.unloaded_modules = UnloadedOffsets(frame, unl)]
    ELSE frame

\* processor.rs:283-301
ProcessState(d, ths, req) ==
    [threads |-> ths,
     requesting_thread |-> req,
     crash_reason |-> IF get_stream(d, "Exception") THEN Some("reason") ELSE None,
     process_id |-> IF get_stream(d, "MiscInfo") THEN Some("pid") ELSE None,
     linux_standard_base |->
        IF get_stream(d, "LinuxLsbRelease") THEN Some("lsb") ELSE None,
     mac_crash_info |-> IF get_stream(d, "MacCrashInfo") THEN Some("mac") ELSE None,
     modules |-> modules(d),
     unloaded_modules |-> unloaded_modules(d)]

----------------------------------------------------------------------------
(* Actions *)

\* Mutant of Start: a missing system-info stream is not an error.
Start_no_system_info_check ==
    /\ pc = "start"
    /\ IF ~get_stream(dump, "ThreadList")
       THEN /\ result' = Some([kind |-> "Err", error |-> "MissingThreadList"])
            /\ pc' = "error"
       ELSE /\ pc' = "loop"
            /\ result' = result
    /\ UNCHANGED <<probe_call, walker, dump, symbol_provider, i, threads, requesting_thread, context,
                   frames, info, maybe_frame, stack>>

\* processor.rs:82-217: the required streams, then the thread loop begins.
Start ==
    /\ pc = "start"
    /\ IF ~get_stream(dump, "ThreadList")
       THEN /\ result' = Some([kind |-> "Err", error |-> "MissingThreadList"])
            /\ pc' = "error"
       ELSE IF ~get_stream(dump, "SystemInfo")
       THEN /\ result' = Some([kind |-> "Err", error |-> "MissingSystemInfo"])
            /\ pc' = "error"
       ELSE /\ pc' = "loop"
            /\ result' = result
    /\ UNCHANGED <<probe_call, walker, dump, symbol_provider, i, threads, requesting_thread, context, frames, info,
                   maybe_frame, stack>>

\* processor.rs:218-225: the thread that wrote the dump is not walked.
SkipDumpThread ==
    /\ pc = "loop"
    /\ i <= Len(thread_list(dump))
    /\ IsDumpThread(dump, thread_list(dump)[i].thread_id)
    /\ threads' = Append(threads,
                         with_info(thread_list(dump)[i].thread_id, "DumpThreadSkipped"))
    /\ i' = i + 1
    /\ UNCHANGED <<probe_call, walker, dump, symbol_provider, pc, requesting_thread, context, frames, info,
                   maybe_frame, stack, result>>

\* processor.rs:227-245 and stackwalker/mod.rs:168-173, 195-197: choose the
\* context and enter walk_stack.
BeginWalk ==
    /\ pc = "loop"
    /\ i <= Len(thread_list(dump))
    /\ LET thread == thread_list(dump)[i]
       IN  /\ ~IsDumpThread(dump, thread.thread_id)
           /\ requesting_thread' =
                 IF IsRequestingThread(dump, thread.thread_id)
                 THEN Some(i - 1) ELSE requesting_thread
           /\ context' = InitialContext(dump, thread)
           /\ frames' = <<>>
           /\ IF IsSome(context')
              THEN /\ info' = "Ok"
                   /\ maybe_frame' = Some(from_context(Unwrap(context'), "Context"))
              ELSE /\ info' = "MissingContext"
                   /\ maybe_frame' = None
    /\ pc' = "walk"
    /\ UNCHANGED <<probe_call, walker, dump, symbol_provider, i, threads, stack, result>>

\* stackwalker/mod.rs:174-193: one iteration of the unwind loop.
WalkStep ==
    /\ pc = "walk"
    /\ IsSome(maybe_frame)
    /\ LET frame == fill_source_line_info(Unwrap(maybe_frame), modules(dump),
                                           symbol_provider.fill)
            grand == IF Len(frames) >= 1 THEN Some(frames[Len(frames)]) ELSE None
       IN  /\ frames' = Append(frames, frame)
           /\ maybe_frame' \in
                get_caller_frame(frame, grand,
                                 stack_memory(thread_list(dump)[i], dump),
                                 modules(dump), symbol_provider)
    /\ UNCHANGED <<probe_call, walker, dump, symbol_provider, pc, i, threads, requesting_thread, context, info,
                   stack, result>>

\* stackwalker/mod.rs:194-205: the loop is over, walk_stack returns.
WalkReturn ==
    /\ pc = "walk"
    /\ maybe_frame = None
    /\ stack' = [frames |-> frames, info |-> info, thread_id |-> 0,
                 thread_name |-> None]
    /\ pc' = "walked"
    /\ UNCHANGED <<probe_call, walker, dump, symbol_provider, i, threads, requesting_thread, context, frames, info,
                   maybe_frame, result>>

\* Mutant of FinishThread: the thread id walk_stack left is kept.
FinishThread_no_thread_id ==
    /\ pc = "walked"
    /\ LET thread == thread_list(dump)[i]
       IN  threads' = Append(threads,
              [stack EXCEPT
                 !.frames = [k \in 1..Len(stack.frames) |->
                               AnnotateFrame(stack.frames[k], unloaded_modules(dump))],
                 !.thread_name = thread_name(thread, dump)])
    /\ i' = i + 1
    /\ pc' = "loop"
    /\ UNCHANGED <<probe_call, walker, dump, symbol_provider, requesting_thread, context, frames, info,
                   maybe_frame, stack, result>>

\* processor.rs:246-273: thread id, unloaded modules and name, then push.
FinishThread ==
    /\ pc = "walked"
    /\ LET thread == thread_list(dump)[i]
       IN  threads' = Append(threads,
              [stack EXCEPT
                 !.thread_id = thread.thread_id,
                 !.frames = [k \in 1..Len(stack.frames) |->
                               AnnotateFrame(stack.frames[k], unloaded_modules(dump))],
                 !.thread_name = thread_name(thread, dump)])
    /\ i' = i + 1
    /\ pc' = "loop"
    /\ UNCHANGED <<probe_call, walker, dump, symbol_provider, requesting_thread, context, frames, info, maybe_frame,
                   stack, result>>

\* processor.rs:276-301: every thread is done, the ProcessState is returned.
Finish ==
    /\ pc = "loop"
    /\ i > Len(thread_list(dump))
    /\ result' = Some([kind |-> "Ok",
                       state |-> ProcessState(dump, threads, requesting_thread)])
    /\ pc' = "done"
    /\ UNCHANGED <<probe_call, walker, dump, symbol_provider, i, threads, requesting_thread, context, frames, info,
                   maybe_frame, stack>>

Next ==
    \/ Start
    \/ SkipDumpThread
    \/ BeginWalk
    \/ WalkStep
    \/ WalkReturn
    \/ FinishThread
    \/ Finish

----------------------------------------------------------------------------
(* The dumps the model processes *)

Ctx(arch, ip, sp, fp) ==
    [arch |-> arch, ip |-> ip, sp |-> sp, fp |-> fp, valid |-> Regs]

Thread(id, ctx, mem) ==
    [thread_id |-> id, context |-> ctx, stack |-> mem, name |-> Some("t")]

\* One loaded module over [2, 4): address 4 is one past its end.
LoadedModules == <<[name |-> "m", base |-> 2, size |-> 2]>>

\* Three unloaded modules, two of one name, overlapping at address 4.
UnloadedModules ==
    <<[name |-> "u", base |-> 4, size |-> 2],
      [name |-> "u", base |-> 3, size |-> 3],
      [name |-> "v", base |-> 4, size |-> 1]>>

ThreadIds == {1, 2}

\* The words a stack slot may hold: zero, an address inside the loaded
\* module, the address one past its end.
WordVals == {0, 3, 4}

\* Stack memory lies at addresses 1, 2 and 3.
StackAddrs == {1, 2, 3}

Memories == {[base |-> 1, words |-> w] : w \in [StackAddrs -> WordVals]}

OwnContext == Ctx("amd64", 2, 1, 1)
ExceptionContext == Ctx("amd64", 3, 2, 2)

\* Threads of the thread-list family: with or without a context, no stack
\* memory in the dump.
ThreadLists ==
    UNION {[1..n -> {Thread(id, c, None) :
                       id \in ThreadIds, c \in {None, Some(OwnContext)}}] :
           n \in 0..MaxThreads}

OptThreadIds == {None} \cup {Some(t) : t \in ThreadIds}

Providers == {[fill |-> f] : f \in FillResults}

\* No call of instruction_seems_valid_by_symbols is under way.
NoProbe ==
    [instruction |-> 0, modules |-> <<>>, fill_at |-> <<>>, build |-> "none",
     outcome |-> "idle"]

\* No CfiStackWalker has been built.
NoWalker ==
    [caller_validity |-> {}, caller_ctx |-> <<>>, last |-> <<>>,
     returned |-> "idle", changed |-> FALSE]

InitVars ==
    /\ pc = "start"
    /\ i = 1
    /\ threads = <<>>
    /\ requesting_thread = None
    /\ context = None
    /\ frames = <<>>
    /\ info = "Ok"
    /\ maybe_frame = None
    /\ stack = with_info(0, "Ok")
    /\ result = None

\* Every thread list, Breakpad info and exception stream over ThreadIds.
InitThreads ==
    /\ \E tl \in ThreadLists, bp \in SUBSET {"BreakpadInfo"},
          ex \in SUBSET {"Exception"},
          dt \in OptThreadIds, rt \in OptThreadIds,
          et \in ThreadIds, ec \in {None, Some(ExceptionContext)} :
         /\ ("BreakpadInfo" \notin bp => dt = None /\ rt = None)
         /\ ("Exception" \notin ex => et = 1 /\ ec = None)
         /\ dump = [streams |-> (AllStreams \ {"BreakpadInfo", "Exception"})
                                 \cup bp \cup ex,
                    threads |-> tl,
                    breakpad |-> [dump_thread_id |-> dt,
                                  requesting_thread_id |-> rt],
                    exception |-> [thread_id |-> et, context |-> ec],
                    modules |-> LoadedModules,
                    unloaded |-> UnloadedModules]
    /\ symbol_provider \in {[fill |-> "Err"], [fill |-> "OkNamed"]}
    /\ InitVars
    /\ probe_call = NoProbe
    /\ walker = NoWalker

\* One thread: every context, stack memory, module list, unloaded list and
\* provider.
InitWalk ==
    /\ \E arch \in {"amd64", "ppc"}, ip \in {0, 2, 4}, sp \in {0, 1},
          fp \in {1, 2},
          mem \in {None} \cup {Some(m) : m \in Memories},
          mods \in {<<>>, LoadedModules},
          unl \in {<<>>, UnloadedModules} :
         dump = [streams |-> AllStreams \ {"BreakpadInfo", "Exception"},
                 threads |-> <<Thread(1, Some(Ctx(arch, ip, sp, fp)), mem)>>,
                 breakpad |-> [dump_thread_id |-> None,
                               requesting_thread_id |-> None],
                 exception |-> [thread_id |-> 1, context |-> None],
                 modules |-> mods,
                 unloaded |-> unl]
    /\ symbol_provider \in Providers
    /\ InitVars
    /\ probe_call = NoProbe
    /\ walker = NoWalker

\* Every combination of streams, over one fixed content.
InitStreams ==
    /\ \E st \in SUBSET AllStreams :
         dump = [streams |-> st,
                 threads |-> <<Thread(1, Some(Ctx("ppc", 2, 1, 1)), None),
                               Thread(2, None, None)>>,
                 breakpad |-> [dump_thread_id |-> Some(2),
                               requesting_thread_id |-> Some(1)],
                 exception |-> [thread_id |-> 1,
                                context |-> Some(Ctx("ppc", 3, 2, 2))],
                 modules |-> LoadedModules,
                 unloaded |-> UnloadedModules]
    /\ symbol_provider = [fill |-> "OkNamed"]
    /\ InitVars
    /\ probe_call = NoProbe
    /\ walker = NoWalker

Init == InitThreads \/ InitWalk

Spec == Init /\ [][Next]_vars

SpecStreams == InitStreams /\ [][Next]_vars

----------------------------------------------------------------------------
(* Claims about process_minidump_with_options *)

Returned == pc \in {"done", "error"}

ReturnedError(e) ==
    pc = "error" /\ result = Some([kind |-> "Err", error |-> e])

ReturnedState == pc = "done" /\ IsSome(result) /\ Unwrap(result).kind = "Ok"

HasThreadList == get_stream(dump, "ThreadList")
HasSystemInfo == get_stream(dump, "SystemInfo")

\* C1, as stated: a dump without the thread list yields MissingThreadList,
\* a dump without the system info yields MissingSystemInfo, and a dump with
\* both yields a ProcessState.
C1_AsStated ==
    Returned =>
        /\ (~HasThreadList => ReturnedError("MissingThreadList"))
        /\ (~HasSystemInfo => ReturnedError("MissingSystemInfo"))
        /\ (HasThreadList /\ HasSystemInfo => ReturnedState)

\* C1, amended: the thread list is looked for first.  A dump without the
\* thread list yields MissingThreadList; a dump with the thread list and
\* without the system info yields MissingSystemInfo; no thread is processed
\* in either case; with both required streams, whatever optional streams
\* there are, there is never an error and the result is a ProcessState with
\* a CallStack for every thread.
C1_RequiredStreams ==
    /\ (pc \notin {"start", "error"} => HasThreadList /\ HasSystemInfo)
    /\ (pc = "error" => ~(HasThreadList /\ HasSystemInfo) /\ threads = <<>>)
    /\ (Returned =>
          /\ (~HasThreadList => ReturnedError("MissingThreadList"))
          /\ (HasThreadList /\ ~HasSystemInfo => ReturnedError("MissingSystemInfo"))
          /\ (HasThreadList /\ HasSystemInfo =>
                /\ ReturnedState
                /\ Len(Unwrap(result).state.threads) = Len(thread_list(dump))))

\* A dump with a thread list, without system info and without any optional
\* stream was refused with MissingSystemInfo.
C1_Witness ==
    /\ ReturnedError("MissingSystemInfo")
    /\ dump.streams = {"ThreadList"}

\* The dump with the dump thread id taken out of its Breakpad info.
WithoutDumpThread(d) == [d EXCEPT !.breakpad.dump_thread_id = None]

\* The CallStack starts from the context `ctx`: MissingContext and no frame
\* without one, else Ok and a seed frame of that context.
StartsFrom(cs, ctx) ==
    IF IsSome(ctx)
    THEN /\ cs.info = "Ok"
         /\ Len(cs.frames) >= 1
         /\ cs.frames[1].context = Unwrap(ctx)
         /\ cs.frames[1].trust = "Context"
    ELSE cs.info = "MissingContext" /\ cs.frames = <<>>

\* C2: every thread whose id is the reported dump thread id gets a
\* CallStack with no frames and info DumpThreadSkipped, walk_stack is never
\* entered for it, and every other thread's CallStack is the one of the
\* dump without a dump thread id: walked from the same context, with the
\* same id and name.
C2_DumpThreadSkipped ==
    /\ (pc \in {"walk", "walked"} =>
           ~(/\ get_stream(dump, "BreakpadInfo")
             /\ dump.breakpad.dump_thread_id = Some(thread_list(dump)[i].thread_id)))
    /\ \A j \in 1..Len(threads) :
          LET t == thread_list(dump)[j]
          IN  IF /\ get_stream(dump, "BreakpadInfo")
                 /\ dump.breakpad.dump_thread_id = Some(t.thread_id)
              THEN /\ threads[j].frames = <<>>
                   /\ threads[j].info = "DumpThreadSkipped"
              ELSE /\ threads[j].info /= "DumpThreadSkipped"
                   /\ StartsFrom(threads[j], InitialContext(WithoutDumpThread(dump), t))
                   /\ threads[j].thread_id = t.thread_id
                   /\ threads[j].thread_name = thread_name(t, WithoutDumpThread(dump))

\* Two threads, the first the dump thread and skipped, the second walked.
C2_Witness ==
    /\ Len(threads) = 2
    /\ get_stream(dump, "BreakpadInfo")
    /\ dump.breakpad.dump_thread_id = Some(thread_list(dump)[1].thread_id)
    /\ thread_list(dump)[2].thread_id /= thread_list(dump)[1].thread_id
    /\ threads[1].info = "DumpThreadSkipped"
    /\ threads[2].info = "Ok"

\* The threads of the list with the given id, as 0-based indices.
IndicesOf(id) ==
    {k - 1 : k \in {j \in 1..Len(thread_list(dump)) : thread_list(dump)[j].thread_id = id}}

HasException == get_stream(dump, "Exception")

BreakpadRequesting ==
    IF get_stream(dump, "BreakpadInfo") THEN dump.breakpad.requesting_thread_id
    ELSE None

BreakpadDumpThread ==
    IF get_stream(dump, "BreakpadInfo") THEN dump.breakpad.dump_thread_id
    ELSE None

\* C3, as stated: with an exception stream, requesting_thread is the index
\* of the thread with the crashing thread id; without one and with a
\* Breakpad requesting thread id, the index of the thread with that id;
\* never the index of a thread matching neither.
C3_AsStated ==
    ReturnedState =>
      LET req == Unwrap(result).state.requesting_thread
      IN  /\ (HasException /\ IndicesOf(dump.exception.thread_id) /= {} =>
                IsSome(req) /\ Unwrap(req) \in IndicesOf(dump.exception.thread_id))
          /\ (~HasException /\ IsSome(BreakpadRequesting)
                /\ IndicesOf(Unwrap(BreakpadRequesting)) /= {} =>
                IsSome(req) /\ Unwrap(req) \in IndicesOf(Unwrap(BreakpadRequesting)))
          /\ (IsSome(req) =>
                \/ HasException /\ Unwrap(req) \in IndicesOf(dump.exception.thread_id)
                \/ IsSome(BreakpadRequesting)
                   /\ Unwrap(req) \in IndicesOf(Unwrap(BreakpadRequesting)))

\* The thread id that selects the requesting thread: the exception's if
\* there is an exception stream, else the Breakpad info's.
SelectingId ==
    IF HasException THEN Some(dump.exception.thread_id) ELSE BreakpadRequesting

Max(S) == CHOOSE x \in S : \A y \in S : y <= x

\* C3, amended: requesting_thread is the index of the last thread whose id
\* is the exception's crashing thread id if there is an exception stream
\* (whatever Breakpad info reports as requesting thread), else the Breakpad
\* requesting thread id; it is None if there is no such id, if no thread
\* has it, or if it is the dump thread id (that thread is skipped before
\* the selection).
C3_RequestingThread ==
    ReturnedState =>
      LET req == Unwrap(result).state.requesting_thread
      IN  IF /\ IsSome(SelectingId)
             /\ IndicesOf(Unwrap(SelectingId)) /= {}
             /\ SelectingId /= BreakpadDumpThread
          THEN req = Some(Max(IndicesOf(Unwrap(SelectingId))))
          ELSE req = None

\* The exception names the second thread, Breakpad info the first as the
\* requesting one: the second is selected.
C3_Witness ==
    /\ ReturnedState
    /\ HasException
    /\ Len(thread_list(dump)) = 2
    /\ thread_list(dump)[1].thread_id /= thread_list(dump)[2].thread_id
    /\ dump.exception.thread_id = thread_list(dump)[2].thread_id
    /\ BreakpadRequesting = Some(thread_list(dump)[1].thread_id)
    /\ Unwrap(result).state.requesting_thread = Some(1)

\* The crashing thread: the one the exception stream names.
IsCrashing(t) == HasException /\ dump.exception.thread_id = t.thread_id

C5_ThreadOrder ==
    /\ Len(threads) <= Len(thread_list(dump))
    /\ (pc = "loop" => Len(threads) = i - 1)
    /\ \A j \in 1..Len(threads) :
          threads[j].thread_id = thread_list(dump)[j].thread_id
    /\ (ReturnedState =>
          /\ Len(Unwrap(result).state.threads) = Len(thread_list(dump))
          /\ \A j \in 1..Len(thread_list(dump)) :
                Unwrap(result).state.threads[j].thread_id
                   = thread_list(dump)[j].thread_id)

\* A returned ProcessState of two threads with different ids, one walked
\* and one without a context.
C5_Witness ==
    /\ ReturnedState
    /\ Len(thread_list(dump)) = 2
    /\ thread_list(dump)[1].thread_id = 2
    /\ thread_list(dump)[2].thread_id = 1
    /\ Unwrap(result).state.threads[1].info = "MissingContext"
    /\ Unwrap(result).state.threads[2].info = "Ok"

----------------------------------------------------------------------------
(* Claims about the frames *)

\* The frames of the CallStacks pushed so far, as <<thread, index>> pairs.
PushedFrames ==
    {<<j, k>> \in (1..Len(threads)) \X (1..(MaxAddr + 3)) : k <= Len(threads[j].frames)}

LoadedAt(a) ==
    {k \in 1..Len(modules(dump)) :
        modules(dump)[k].base <= a
        /\ a < modules(dump)[k].base + modules(dump)[k].size}

UnloadedAt(a) ==
    {k \in 1..Len(unloaded_modules(dump)) :
        unloaded_modules(dump)[k].base <= a
        /\ a < unloaded_modules(dump)[k].base + unloaded_modules(dump)[k].size}

\* C6: a pushed frame without a module maps exactly the names of the
\* unloaded modules around its instruction to the offsets of the
\* instruction in them; a frame with a module has an empty map.
C6_UnloadedModules ==
    \A p \in PushedFrames :
       LET f == threads[p[1]].frames[p[2]]
       IN  IF f.module = None
           THEN f.unloaded_modules =
                  {<<unloaded_modules(dump)[k].name,
                     f.instruction - unloaded_modules(dump)[k].base>> :
                       k \in UnloadedAt(f.instruction)}
           ELSE f.unloaded_modules = {}

\* A frame at address 4, outside the loaded module and inside all three
\* unloaded modules, two of them of one name.
C6_Witness ==
    \E p \in PushedFrames :
       LET f == threads[p[1]].frames[p[2]]
       IN  /\ f.module = None
           /\ f.instruction = 4
           /\ f.unloaded_modules = {<<"u", 0>>, <<"u", 1>>, <<"v", 0>>}

\* Every offset a frame records is its instruction minus the base of an
\* unloaded module of that name around the instruction.
OffsetsRight(f) ==
    \A e \in f.unloaded_modules :
       \E k \in UnloadedAt(f.instruction) :
          e = <<unloaded_modules(dump)[k].name,
                f.instruction - unloaded_modules(dump)[k].base>>

\* C7, as stated: a non-seed frame's instruction lies in a loaded module
\* (and the module is set), or the frame records a non-empty map of
\* unloaded modules with the right offsets.
C7_AsStated ==
    \A p \in PushedFrames :
       LET f == threads[p[1]].frames[p[2]]
       IN  p[2] >= 2 =>
             \/ LoadedAt(f.instruction) /= {} /\ f.module /= None
             \/ f.unloaded_modules /= {} /\ OffsetsRight(f)

\* C7, amended: a non-seed frame's instruction lies in a loaded module and
\* the module is set, or the frame has no module and every offset of its
\* unloaded-modules map, which may be empty, is the instruction minus the
\* base of an unloaded module around it.
C7_NonSeedFrames ==
    \A p \in PushedFrames :
       LET f == threads[p[1]].frames[p[2]]
       IN  p[2] >= 2 =>
             \/ LoadedAt(f.instruction) /= {} /\ f.module /= None
             \/ LoadedAt(f.instruction) = {} /\ f.module = None /\ OffsetsRight(f)

\* A non-seed frame one past the end of the loaded module, with offsets in
\* the unloaded modules around it.
C7_Witness ==
    \E p \in PushedFrames :
       LET f == threads[p[1]].frames[p[2]]
       IN  /\ p[2] >= 2
           /\ f.module = None
           /\ f.instruction = 4
           /\ f.unloaded_modules /= {}

\* C8: walk_stack returns MissingContext exactly when it was given no
\* context, and then no frame; given a context it returns Ok and at least
\* one frame, the first built from the context with trust Context; every
\* frame has a module exactly when a loaded module covers its instruction,
\* also when the provider has no symbols for it; the thread id is left 0.
C8_WalkStack ==
    pc = "walked" =>
       /\ (stack.info = "MissingContext" <=> context = None)
       /\ (context = None => stack.frames = <<>>)
       /\ (context /= None =>
             /\ stack.info = "Ok"
             /\ Len(stack.frames) >= 1
             /\ stack.frames[1].context = Unwrap(context)
             /\ stack.frames[1].instruction = Unwrap(context).ip
             /\ stack.frames[1].trust = "Context")
       /\ \A k \in 1..Len(stack.frames) :
             /\ (stack.frames[k].module /= None
                   <=> LoadedAt(stack.frames[k].instruction) /= {})
             /\ (symbol_provider.fill = "Err" =>
                   stack.frames[k].function_name = None)
       /\ stack.thread_id = 0

\* walk_stack returned two frames in the loaded module, the provider
\* having no symbols for it.
C8_Witness ==
    /\ pc = "walked"
    /\ symbol_provider.fill = "Err"
    /\ Len(stack.frames) >= 2
    /\ stack.frames[1].module /= None
    /\ stack.frames[2].module /= None
    /\ stack.frames[2].function_name = None

StrictlyIncreasingSP(fs) ==
    \A k \in 1..(Len(fs) - 1) : fs[k].context.sp < fs[k + 1].context.sp

\* C9: the stack pointers of the frames of a walk are strictly increasing
\* from innermost to outermost, in the walk under way (the caller about to
\* be appended included), in the CallStack walk_stack returns and in every
\* CallStack pushed.
C9_StrictlyIncreasingSP ==
    /\ StrictlyIncreasingSP(frames)
    /\ (pc = "walk" /\ IsSome(maybe_frame) /\ frames /= <<>> =>
           frames[Len(frames)].context.sp < Unwrap(maybe_frame).context.sp)
    /\ (pc = "walked" /\ stack.info = "Ok" => StrictlyIncreasingSP(stack.frames))
    /\ \A j \in 1..Len(threads) :
          threads[j].info = "Ok" => StrictlyIncreasingSP(threads[j].frames)

\* A walk of three frames recovered by three strategies.
C9_Witness ==
    /\ pc = "walked"
    /\ Len(stack.frames) >= 3
    /\ {"Context", "CFI", "Scan"}
          \subseteq {stack.frames[k].trust : k \in 1..Len(stack.frames)}

\* What is left of the unwind loop: the distance of the next frame's SP to
\* the top of the address space, nothing once there is no next frame.
WalkRank ==
    IF IsSome(maybe_frame)
    THEN MaxAddr + 1 - Unwrap(maybe_frame).context.sp
    ELSE 0

\* What get_caller_frame may answer for the frame the loop is about to
\* append.
CallerAnswers ==
    get_caller_frame(
        fill_source_line_info(Unwrap(maybe_frame), modules(dump), symbol_provider.fill),
        IF Len(frames) >= 1 THEN Some(frames[Len(frames)]) ELSE None,
        stack_memory(thread_list(dump)[i], dump), modules(dump), symbol_provider)

\* C10: the unwind loop terminates: every iteration leaves a caller with a
\* strictly greater SP, below the top of the address space, or no caller;
\* and the loop never hangs: with a frame it iterates, without it returns.
C10_WalkTerminates ==
    [][pc = "walk" =>
         /\ (IsSome(maybe_frame) => CallerAnswers /= {})
         /\ (pc' = "walk" => WalkRank' < WalkRank /\ WalkRank' >= 0)]_vars

\* A walk whose loop ran four times or more before get_caller_frame had no
\* caller left and walk_stack returned.
C10_Witness ==
    /\ pc = "walked"
    /\ stack.info = "Ok"
    /\ Len(stack.frames) >= 4

----------------------------------------------------------------------------
(* instruction_seems_valid_by_symbols, called on its own *)

\* The build profiles: overflow checks are on in a debug build and off in
\* a release build.
Builds == {"debug", "release"}

\* stackwalker/mod.rs:222, `instruction - 1` on a u64: at zero a build
\* with overflow checks panics (None), a build without wraps around.
sub_one(instruction, build) ==
    IF instruction = 0
    THEN IF build = "debug" THEN None ELSE Some(AddrSpace - 1)
    ELSE Some(instruction - 1)

\* One call of instruction_seems_valid_by_symbols (stackwalker/mod.rs:
\* 209-272): the provider is asked about the dummy frame's instruction
\* (mod.rs:247-252) and answers `fill_at` of that address.
seems_valid_outcome(instruction, mods, fill_at, build) ==
    LET p == sub_one(instruction, build)
    IN  IF p = None THEN "panic"
        ELSE IF instruction_seems_valid_by_symbols(instruction, mods,
                                                   fill_at[Unwrap(p)])
        THEN "true" ELSE "false"

\* The call runs.
CallProbe ==
    /\ probe_call.outcome = "idle"
    /\ probe_call.build \in Builds
    /\ probe_call' =
          [probe_call EXCEPT !.outcome =
              seems_valid_outcome(probe_call.instruction, probe_call.modules,
                                  probe_call.fill_at, probe_call.build)]
    /\ UNCHANGED <<dump, pc, i, threads, requesting_thread, context, frames,
                   info, maybe_frame, stack, symbol_provider, walker, result>>

NextProbe == CallProbe

\* Module lists for the probe: none, the loaded module over [2, 4), and
\* that module with one over [0, 1) before it.
ProbeModuleLists ==
    {<<>>, LoadedModules,
     <<[name |-> "z", base |-> 0, size |-> 1]>> \o LoadedModules}

\* Providers that answer one address differently from all the others.
ProbeProviders ==
    {[a \in Addr |-> IF a = x THEN f ELSE g] :
        x \in Addr, f \in FillResults, g \in FillResults}

\* A dump that plays no part in the calls made on their own.
IdleDump ==
    [streams |-> AllStreams, threads |-> <<>>,
     breakpad |-> [dump_thread_id |-> None, requesting_thread_id |-> None],
     exception |-> [thread_id |-> 1, context |-> None],
     modules |-> <<>>, unloaded |-> <<>>]

\* Every instruction, module list, provider and build.
InitProbe ==
    /\ \E instruction \in Addr, mods \in ProbeModuleLists,
          fill_at \in ProbeProviders, build \in Builds :
         probe_call = [instruction |-> instruction, modules |-> mods,
                       fill_at |-> fill_at, build |-> build, outcome |-> "idle"]
    /\ dump = IdleDump
    /\ symbol_provider = [fill |-> "Err"]
    /\ walker = NoWalker
    /\ InitVars

SpecProbe == InitProbe /\ [][NextProbe]_vars

\* The modules of the call that cover an address (none below zero).
ProbeCovered(a) ==
    {k \in 1..Len(probe_call.modules) :
        probe_call.modules[k].base <= a
        /\ a < probe_call.modules[k].base + probe_call.modules[k].size}

\* C11: for every instruction, zero included, the call returns, with
\* probe = instruction - 1: false if no loaded module covers probe; true if
\* one does and the provider reports an error for probe; and, if the
\* provider reports success for probe, true exactly when it set a non-empty
\* function name.
C11_AsStated ==
    probe_call.outcome /= "idle" =>
       LET p == probe_call.instruction - 1
       IN  probe_call.outcome =
              IF ProbeCovered(p) = {} THEN "false"
              ELSE IF probe_call.fill_at[p] = "Err" THEN "true"
              ELSE IF probe_call.fill_at[p] = "OkNamed" THEN "true"
              ELSE "false"

\* C11 for the instructions above zero, where the subtraction is defined.
C11_AboveZero ==
    probe_call.instruction /= 0 => C11_AsStated

----------------------------------------------------------------------------
(* CfiStackWalker: the caller context under construction *)

\* A user-supplied spelling of the frame pointer, and a name of no register.
CfiNames == Regs \cup {"x29", "bogus"}

\* Values to store: two that fit the register and one that does not.
CfiValues == {1, 2, AddrSpace}

\* CpuContext::memoize_register: the canonical spelling of a register name
\* of the ISA, None for any other name.
memoize_register(name) ==
    IF name \in Regs THEN Some(name)
    ELSE IF name = "x29" THEN Some("fp")
    ELSE None

\* C::Register::try_from(val).ok() (stackwalker/mod.rs:60, 70, 76).
try_from(val) == IF val < AddrSpace THEN Some(val) ELSE None

stack_pointer_register_name == "sp"

instruction_pointer_register_name == "ip"

\* CpuContext::set_register: writes the register the name spells.
set_register(ctx, name, val) ==
    LET memoized == memoize_register(name)
    IN  IF memoized = None THEN [ok |-> FALSE, ctx |-> ctx]
        ELSE [ok |-> TRUE, ctx |-> [ctx EXCEPT ![Unwrap(memoized)] = val]]

\* The walker after a call that got as far as the validity set: `valid` is
\* the new validity set, `set` the answer of set_register; `last` records,
\* for the register operated on, whether the call was a successful set.
AfterSet(valid, set, reg) ==
    [caller_validity |-> valid,
     caller_ctx |-> set.ctx,
     last |-> IF set.ok THEN [walker.last EXCEPT ![reg] = "set"]
              ELSE walker.last,
     returned |-> IF set.ok THEN "Some" ELSE "None",
     changed |-> valid /= walker.caller_validity
                 \/ set.ctx /= walker.caller_ctx]

\* The walker after a call that returned None at a `?`.
AfterNone == [walker EXCEPT !.returned = "None", !.changed = FALSE]

CfiRest ==
    UNCHANGED <<dump, pc, i, threads, requesting_thread, context, frames,
                info, maybe_frame, stack, symbol_provider, probe_call, result>>

\* stackwalker/mod.rs:58-63.
SetCallerRegister ==
    /\ walker.returned /= "idle"
    /\ \E name \in CfiNames, val \in CfiValues :
         LET memoized == memoize_register(name)
             v == try_from(val)
         IN  walker' =
                IF memoized = None \/ v = None THEN AfterNone
                ELSE AfterSet(walker.caller_validity \cup {Unwrap(memoized)},
                              set_register(walker.caller_ctx, name, Unwrap(v)),
                              Unwrap(memoized))
    /\ CfiRest

\* The name clear_caller_register removes from the validity set
\* (stackwalker/mod.rs:65): the name as it was supplied.
ClearedName(name) == name

\* stackwalker/mod.rs:64-66.
ClearCallerRegister ==
    /\ walker.returned /= "idle"
    /\ \E name \in CfiNames :
         LET memoized == memoize_register(name)
             valid == walker.caller_validity \ {ClearedName(name)}
         IN  walker' =
                [walker EXCEPT
                    !.caller_validity = valid,
                    !.last = IF IsSome(memoized)
                             THEN [@ EXCEPT ![Unwrap(memoized)] = "clear"]
                             ELSE @,
                    !.returned = "unit",
                    !.changed = valid /= walker.caller_validity]
    /\ CfiRest

\* stackwalker/mod.rs:67-72.
SetCfa ==
    /\ walker.returned /= "idle"
    /\ \E val \in CfiValues :
         LET stack_pointer_reg == stack_pointer_register_name
             v == try_from(val)
         IN  walker' =
                IF v = None THEN AfterNone
                ELSE AfterSet(walker.caller_validity \cup {stack_pointer_reg},
                              set_register(walker.caller_ctx, stack_pointer_reg,
                                           Unwrap(v)),
                              stack_pointer_reg)
    /\ CfiRest

\* stackwalker/mod.rs:73-80.
SetRa ==
    /\ walker.returned /= "idle"
    /\ \E val \in CfiValues :
         LET instruction_pointer_reg == instruction_pointer_register_name
             v == try_from(val)
         IN  walker' =
                IF v = None THEN AfterNone
                ELSE AfterSet(walker.caller_validity \cup {instruction_pointer_reg},
                              set_register(walker.caller_ctx,
                                           instruction_pointer_reg, Unwrap(v)),
                              instruction_pointer_reg)
    /\ CfiRest

NextCfi == SetCallerRegister \/ ClearCallerRegister \/ SetCfa \/ SetRa

\* A new walker: no caller register valid, none operated on.
InitCfi ==
    /\ walker = [caller_validity |-> {},
                 caller_ctx |-> [r \in Regs |-> 0],
                 last |-> [r \in Regs |-> "none"],
                 returned |-> "new",
                 changed |-> FALSE]
    /\ probe_call = NoProbe
    /\ dump = IdleDump
    /\ symbol_provider = [fill |-> "Err"]
    /\ InitVars

SpecCfi == InitCfi /\ [][NextCfi]_vars

\* C12: after any sequence of set_caller_register, clear_caller_register,
\* set_cfa and set_ra calls the caller validity set holds only canonical
\* register names of the ISA; a register is in it exactly when the most
\* recent clear or successful set of it was a successful set; and a set that
\* returned None left the validity set and the caller context as they were.
C12_AsStated ==
    walker.returned /= "idle" =>
       /\ walker.caller_validity \subseteq Regs
       /\ \A r \in Regs : r \in walker.caller_validity <=> walker.last[r] = "set"
       /\ walker.returned = "None" => ~walker.changed

\* C12's parts that do not depend on clear: only canonical names are valid,
\* a register that is not valid was never set or was cleared, and a set that
\* returned None changed nothing.
C12_SetsOnly ==
    walker.returned /= "idle" =>
       /\ walker.caller_validity \subseteq Regs
       /\ \A r \in Regs : walker.last[r] = "set" => r \in walker.caller_validity
       /\ walker.returned = "None" => ~walker.changed

====
